---- MODULE Spec2Model ----
(***************************************************************************)
(* Model of python/sglang/srt/layers/activation.py: the activation         *)
(* registry lookup (get_act_fn), the cross-encoder activation resolution,  *)
(* the post-scale wrapper ScaledActivation with its tensor-parallel        *)
(* weight loader, and the import-time hardware dispatch of the gated       *)
(* activations SiluAndMul and GeluAndMul.                                  *)
(*                                                                         *)
(* Python strings are sequences of one-character strings, so that          *)
(* str.lower and str.startswith are computed character by character.       *)
(* One-dimensional tensors are sequences of element values.                *)
(***************************************************************************)
EXTENDS Integers, Sequences, FiniteSets, TLC

VARIABLES
    tp_size,    \* get_tensor_model_parallel_world_size() of the group
    me,         \* get_tensor_model_parallel_rank() of the worker process of Spec
    mods,       \* rank -> the ScaledActivation the worker of that rank holds
    ckpt,       \* SpecTP: the checkpoint tensor every worker loads
    cfg,        \* SpecTP: the model's intermediate_size and input_is_parallel
    hw,         \* SpecHW: the hardware flags read at import, lines 42-46
    pc,         \* SpecHW: how far the import of the module has run
    imported,   \* SpecHW: kernel names bound by the imports of lines 48-54
    bound,      \* SpecHW: which classes the names SiluAndMul, GeluAndMul denote
    gelu,       \* SpecHW: the GeluAndMul instance built by the caller
    last        \* the last call made: its operation, arguments and result

vars == <<tp_size, me, mods, ckpt, cfg, hw, pc, imported, bound, gelu, last>>

(***************************************************************************)
(* Bounds of the model.                                                    *)
(***************************************************************************)
MaxTP == 2
MaxN == 4

None == [cls |-> "None"]
NoCall == [op |-> "none"]

Raise(exc, msg) == [kind |-> "raise", exc |-> exc, msg |-> msg]
Return(v) == [kind |-> "return", value |-> v]

(***************************************************************************)
(* Strings.                                                                *)
(***************************************************************************)
UpperChars ==
    <<"A", "B", "C", "D", "E", "F", "G", "H", "I", "J", "K", "L", "M",
      "N", "O", "P", "Q", "R", "S", "T", "U", "V", "W", "X", "Y", "Z">>
LowerChars ==
    <<"a", "b", "c", "d", "e", "f", "g", "h", "i", "j", "k", "l", "m",
      "n", "o", "p", "q", "r", "s", "t", "u", "v", "w", "x", "y", "z">>

LowerChar(c) ==
    IF \E i \in 1..Len(UpperChars) : UpperChars[i] = c
    THEN LowerChars[CHOOSE i \in 1..Len(UpperChars) : UpperChars[i] = c]
    ELSE c

\* str.lower()
Lower(s) == [i \in 1..Len(s) |-> LowerChar(s[i])]

\* str.startswith(prefix)
StartsWith(s, prefix) ==
    /\ Len(prefix) <= Len(s)
    /\ SubSeq(s, 1, Len(prefix)) = prefix

(***************************************************************************)
(* The registry, lines 183-188.                                            *)
(***************************************************************************)
K_gelu ==
    <<"g", "e", "l", "u">>
K_gelu_pytorch_tanh ==
    <<"g", "e", "l", "u", "_", "p", "y", "t", "o", "r", "c", "h", "_", "t", "a", "n", "h">>
K_gelu_new ==
    <<"g", "e", "l", "u", "_", "n", "e", "w">>
K_relu2 ==
    <<"r", "e", "l", "u", "2">>

RegistryKeys == {K_gelu, K_gelu_pytorch_tanh, K_gelu_new, K_relu2}

BaseAct(cls, approximate) == [cls |-> cls, approximate |-> approximate]

ACTIVATION_REGISTRY(k) ==
    CASE k = K_gelu -> BaseAct("nn.GELU", "none")
      [] k = K_gelu_pytorch_tanh -> BaseAct("nn.GELU", "tanh")
      [] k = K_gelu_new -> BaseAct("NewGELU", "n/a")
      [] k = K_relu2 -> BaseAct("ReLU2", "n/a")

(***************************************************************************)
(* ScaledActivation, lines 141-180.                                        *)
(***************************************************************************)
\* An element of a tensor that torch.empty has allocated and nothing has
\* written yet. No operation modelled here reads a scale element: the
\* loader reads the shape of the parameter only and copy_ overwrites it.
Uninit == -1
Vals == {0, 1}

\* torch.empty(n): n unwritten elements.
TorchEmpty(n) == [i \in 1..n |-> Uninit]

\* sglang.srt.distributed.divide: the quotient, after ensure_divisibility.
Divide(numerator, denominator) ==
    IF numerator % denominator # 0
    THEN Raise("AssertionError", "not_divisible")
    ELSE Return(numerator \div denominator)

Module(act, par, scales) ==
    [cls |-> "ScaledActivation", act |-> act,
     input_is_parallel |-> par, scales |-> scales]

\* __init__ with a floor division in place of divide
ScaledActivationInitFloor(act_module, intermediate_size, input_is_parallel, W) ==
    Return(Module(act_module, input_is_parallel,
                  TorchEmpty(IF input_is_parallel
                             THEN intermediate_size \div W
                             ELSE intermediate_size)))

\* ScaledActivation.__init__(act_module, intermediate_size, input_is_parallel)
\* in a group of W workers.
ScaledActivationInit(act_module, intermediate_size, input_is_parallel, W) ==
    LET per_partition ==
            IF input_is_parallel
            THEN Divide(intermediate_size, W)
            ELSE Return(intermediate_size)
    IN  IF per_partition.kind = "raise"
        THEN per_partition
        ELSE Return(Module(act_module, input_is_parallel,
                           TorchEmpty(per_partition.value)))

\* torch.Tensor.narrow(0, start, length) of a one-dimensional tensor, for
\* start >= 0 and length >= 0.
Narrow(t, start, length) ==
    IF start > Len(t)
    THEN Raise("IndexError", "start_out_of_range")
    ELSE IF start + length > Len(t)
    THEN Raise("RuntimeError", "start_plus_length_exceeds_size")
    ELSE Return(SubSeq(t, start + 1, start + length))

\* Variants of weight_loader with a slip in it.
WeightLoaderWith(m, loaded_weight, start_idx, checked, copy_first) ==
    LET param_data == m.scales
        shard_size == Len(param_data)
        sliced == IF m.input_is_parallel
                  THEN Narrow(loaded_weight, start_idx, shard_size)
                  ELSE Return(loaded_weight)
        overwritten == [i \in 1..shard_size |->
                           IF i <= Len(sliced.value)
                           THEN sliced.value[i] ELSE param_data[i]]
    IN  IF sliced.kind = "raise"
        THEN [res |-> sliced, scales |-> param_data]
        ELSE IF checked /\ Len(param_data) # Len(sliced.value)
        THEN [res |-> Raise("AssertionError", "shape"),
              scales |-> IF copy_first THEN overwritten ELSE param_data]
        ELSE [res |-> Return(None), scales |-> overwritten]
\* start_idx = tp_rank
WeightLoaderStartAtRank(m, loaded_weight, tp_rank) ==
    WeightLoaderWith(m, loaded_weight, tp_rank, TRUE, FALSE)
\* start_idx = 0
WeightLoaderNoOffset(m, loaded_weight, tp_rank) ==
    WeightLoaderWith(m, loaded_weight, 0, TRUE, FALSE)
\* no shape assertion
WeightLoaderUnchecked(m, loaded_weight, tp_rank) ==
    WeightLoaderWith(m, loaded_weight, tp_rank * Len(m.scales), FALSE, FALSE)
\* copy_ before the shape assertion
WeightLoaderCopyFirst(m, loaded_weight, tp_rank) ==
    WeightLoaderWith(m, loaded_weight, tp_rank * Len(m.scales), TRUE, TRUE)

\* ScaledActivation.weight_loader(param, loaded_weight) on the module m of
\* the worker of rank tp_rank, param being m.scales. The result and the
\* content of the parameter after the call.
WeightLoader(m, loaded_weight, tp_rank) ==
    LET param_data == m.scales
        shard_size == Len(param_data)
        start_idx == tp_rank * shard_size
        sliced == IF m.input_is_parallel
                  THEN Narrow(loaded_weight, start_idx, shard_size)
                  ELSE Return(loaded_weight)
    IN  IF sliced.kind = "raise"
        THEN [res |-> sliced, scales |-> param_data]
        ELSE IF Len(param_data) # Len(sliced.value)
        THEN [res |-> Raise("AssertionError", "shape"), scales |-> param_data]
        ELSE [res |-> Return(None), scales |-> sliced.value]

(***************************************************************************)
(* get_act_fn, lines 191-213.                                              *)
(***************************************************************************)
IntVal(n) == [cls |-> "int", v |-> n]
StrVal(s) == [cls |-> "str", s |-> s]
\* A QuantizationConfig whose get_scaled_act_names() returns the names.
QuantConfig(names) == [cls |-> "QuantizationConfig", scaled_act_names |-> names]

\* Variants of get_act_fn with a slip in it: the key looked up and the
\* condition under which the activation is wrapped are given.
GetActFnWith(key, scaled, intermediate_size, input_is_parallel, W) ==
    IF key \notin RegistryKeys
    THEN [res |-> Raise("ValueError", "unsupported"), built |-> FALSE]
    ELSE IF scaled
    THEN IF intermediate_size = None
         THEN [res |-> Raise("ValueError", "intermediate_size_missing"),
               built |-> FALSE]
         ELSE [res |-> ScaledActivationInit(ACTIVATION_REGISTRY(key),
                           intermediate_size.v, input_is_parallel, W),
               built |-> TRUE]
    ELSE [res |-> Return(ACTIVATION_REGISTRY(key)), built |-> FALSE]
\* no act_fn_name.lower()
GetActFnCaseSensitive(act_fn_name, quant_config, intermediate_size, input_is_parallel, W) ==
    GetActFnWith(act_fn_name,
                 quant_config # None
                     /\ act_fn_name \in quant_config.scaled_act_names,
                 intermediate_size, input_is_parallel, W)
\* wraps whenever a quant_config is given
GetActFnAnyQuant(act_fn_name, quant_config, intermediate_size, input_is_parallel, W) ==
    GetActFnWith(Lower(act_fn_name), quant_config # None,
                 intermediate_size, input_is_parallel, W)

\* get_act_fn(act_fn_name, quant_config, intermediate_size, input_is_parallel)
\* in a group of W workers: the result, and whether ScaledActivation.__init__
\* was entered.
GetActFn(act_fn_name, quant_config, intermediate_size, input_is_parallel, W) ==
    LET name == Lower(act_fn_name)
    IN  IF name \notin RegistryKeys
        THEN [res |-> Raise("ValueError", "unsupported"), built |-> FALSE]
        ELSE LET act_fn == ACTIVATION_REGISTRY(name)
             IN  IF /\ quant_config # None
                    /\ name \in quant_config.scaled_act_names
                 THEN IF intermediate_size = None
                      THEN [res |-> Raise("ValueError", "intermediate_size_missing"),
                            built |-> FALSE]
                      ELSE [res |-> ScaledActivationInit(act_fn,
                                        intermediate_size.v, input_is_parallel, W),
                            built |-> TRUE]
                 ELSE [res |-> Return(act_fn), built |-> FALSE]

(***************************************************************************)
(* get_cross_encoder_activation_function, lines 216-230.                   *)
(***************************************************************************)
TrustedPrefix ==
    <<"t", "o", "r", "c", "h", ".", "n", "n", ".", "m", "o", "d", "u", "l", "e", "s", ".">>

Field == "sbert_ce_default_activation_function"
HasAttr(config, name) == name \in DOMAIN config

\* Variants of the function with a slip in it: a name is resolved when
\* allowed holds of it.
CrossEncoderWith(config, resolves, allowed) ==
    IF HasAttr(config, Field) /\ config[Field] # None
    THEN LET function_name == config[Field]
         IN  IF function_name.cls # "str"
             THEN [res |-> Raise("AttributeError", "startswith"), resolved |-> <<>>]
             ELSE IF ~allowed
             THEN [res |-> Raise("AssertionError", "restricted"), resolved |-> <<>>]
             ELSE [res |-> IF resolves
                           THEN Return(BaseAct(function_name.s, "n/a"))
                           ELSE Raise("ResolveError", "no_such_object"),
                   resolved |-> <<function_name.s>>]
    ELSE [res |-> Return(BaseAct("nn.Identity", "n/a")), resolved |-> <<>>]
\* the prefix without its last dot
CrossEncoderShortPrefix(config, resolves) ==
    CrossEncoderWith(config, resolves,
        /\ HasAttr(config, Field)
        /\ config[Field].cls = "str"
        /\ StartsWith(config[Field].s,
                      SubSeq(TrustedPrefix, 1, Len(TrustedPrefix) - 1)))

\* get_cross_encoder_activation_function(config): the result, and the names
\* handed to resolve_obj_by_qualname. resolves: whether the name can be
\* imported and instantiated.
GetCrossEncoderActivationFunction(config, resolves) ==
    IF HasAttr(config, Field) /\ config[Field] # None
    THEN LET function_name == config[Field]
         IN  IF function_name.cls # "str"
             THEN [res |-> Raise("AttributeError", "startswith"), resolved |-> <<>>]
             ELSE IF ~StartsWith(function_name.s, TrustedPrefix)
             THEN [res |-> Raise("AssertionError", "restricted"), resolved |-> <<>>]
             ELSE [res |-> IF resolves
                           THEN Return(BaseAct(function_name.s, "n/a"))
                           ELSE Raise("ResolveError", "no_such_object"),
                   resolved |-> <<function_name.s>>]
    ELSE [res |-> Return(BaseAct("nn.Identity", "n/a")), resolved |-> <<>>]

(***************************************************************************)
(* Import-time hardware flags and kernels, lines 42-54 and 233-237.        *)
(***************************************************************************)
HwFlags == [cuda : BOOLEAN, hip : BOOLEAN, npu : BOOLEAN,
            cpu : BOOLEAN, amx : BOOLEAN]

\* The names bound by the imports of lines 48-54 under flags h.
KernelImports(h) ==
    (IF h.cuda
     THEN {"gelu_and_mul", "gelu_tanh_and_mul", "silu_and_mul"}
     ELSE IF h.hip
     THEN {"gelu_and_mul", "gelu_quick", "gelu_tanh_and_mul", "silu_and_mul"}
     ELSE {})
    \cup (IF h.npu THEN {"torch_npu"} ELSE {})

\* The operators registered under torch.ops.sgl_kernel: the CPU kernels are
\* there when cpu_has_amx_support() holds.
RegisteredOps(h) == IF h.amx THEN {"silu_and_mul_cpu"} ELSE {}

\* The condition of line 233, without its _is_hip disjunct.
FallbackToVllmNoHip(h) == ~(h.cuda \/ h.npu \/ (h.cpu /\ h.amx))

\* The condition of line 233: the names SiluAndMul and GeluAndMul are rebound
\* to the classes of vllm.
FallbackToVllm(h) == ~(h.cuda \/ h.npu \/ (h.cpu /\ h.amx) \/ h.hip)

\* CustomOp.dispatch_forward: the method forward() runs under flags h.
DispatchForward(h) ==
    IF h.cuda THEN "forward_cuda"
    ELSE IF h.hip THEN "forward_hip"
    ELSE IF h.cpu /\ h.amx THEN "forward_cpu"
    ELSE IF h.npu THEN "forward_npu"
    ELSE "forward_native"

\* A call of a name of the module's namespace: NameError when the import
\* that binds it did not run.
CallName(name, names, d) ==
    IF name \in names
    THEN [res |-> Return(d), calls |-> <<name>>]
    ELSE [res |-> Raise("NameError", name), calls |-> <<>>]

(***************************************************************************)
(* SiluAndMul, lines 59-82. x has a last dimension of n elements, n even;  *)
(* the result is the last dimension of the output.                         *)
(***************************************************************************)
SiluForwardNative(n) ==
    [res |-> Return(n \div 2), calls |-> <<"F.silu">>]

SiluForwardCuda(n, names) == CallName("silu_and_mul", names, n \div 2)

SiluForwardCpu(n, h, ops) ==
    IF h.amx
    THEN CallName("silu_and_mul_cpu", ops, n \div 2)
    ELSE SiluForwardNative(n)

SiluForwardNpu(n, names) ==
    IF "torch_npu" \in names
    THEN [res |-> Return(n \div 2), calls |-> <<"torch_npu.npu_swiglu">>]
    ELSE [res |-> Raise("NameError", "torch_npu"), calls |-> <<>>]

\* SiluAndMul.forward(x): the method CustomOp dispatches to, and its result.
SiluForward(n, h, names) ==
    LET method == DispatchForward(h)
        out == CASE method = "forward_cuda" -> SiluForwardCuda(n, names)
                 [] method = "forward_hip" -> SiluForwardCuda(n, names)
                 [] method = "forward_cpu" ->
                        SiluForwardCpu(n, h, RegisteredOps(h))
                 [] method = "forward_npu" -> SiluForwardNpu(n, names)
                 [] method = "forward_native" -> SiluForwardNative(n)
    IN  [method |-> method, res |-> out.res, calls |-> out.calls]

(***************************************************************************)
(* GeluAndMul, lines 85-104.                                               *)
(***************************************************************************)
GeluInit(approximate) ==
    [cls |-> "GeluAndMul", approximate |-> approximate]

\* F.gelu(t, approximate=a): torch rejects any a but "none" and "tanh".
FGelu(a, d) ==
    IF a \in {"none", "tanh"}
    THEN [res |-> Return(d), calls |-> <<"F.gelu">>]
    ELSE [res |-> Raise("RuntimeError", "F.gelu_approximate"),
          calls |-> <<"F.gelu">>]

GeluForwardNative(self, n) == FGelu(self.approximate, n \div 2)

\* forward_cuda with the two kernels exchanged
GeluForwardCudaSwapped(self, n, names) ==
    IF self.approximate = "tanh"
    THEN CallName("gelu_and_mul", names, n \div 2)
    ELSE IF self.approximate = "none"
    THEN CallName("gelu_tanh_and_mul", names, n \div 2)
    ELSE [res |-> Raise("RuntimeError", "only_tanh_or_none"), calls |-> <<>>]

GeluForwardCuda(self, n, names) ==
    IF self.approximate = "tanh"
    THEN CallName("gelu_tanh_and_mul", names, n \div 2)
    ELSE IF self.approximate = "none"
    THEN CallName("gelu_and_mul", names, n \div 2)
    ELSE [res |-> Raise("RuntimeError", "only_tanh_or_none"), calls |-> <<>>]

(***************************************************************************)
(* Inputs.                                                                 *)
(***************************************************************************)
Ranks == 0..(tp_size - 1)
Sizes == 0..MaxN
\* One-dimensional loaded_weight tensors, up to one element longer than the
\* largest intermediate size.
Weights == UNION {[1..n -> Vals] : n \in 0..(MaxN + 1)}
\* The act_module handed to a ScaledActivation built directly.
DirectAct == BaseAct("ReLU2", "n/a")

IsModule(m) == m.cls = "ScaledActivation"

\* The last dimension of x: even, as the gated activations require.
LastDims == {2 * k : k \in 0..MaxN}
\* The approximate argument of GeluAndMul.
Modes == {"tanh", "none", "Tanh", "exact", "quick"}

\* Names given to get_act_fn.
N_GELU ==
    <<"G", "E", "L", "U">>
N_Gelu_New ==
    <<"G", "e", "l", "u", "_", "N", "e", "w">>
N_ReLU2 ==
    <<"R", "e", "L", "U", "2">>
N_GELU_PyTorch_Tanh ==
    <<"G", "E", "L", "U", "_", "P", "y", "T", "o", "r", "c", "h", "_", "T", "a", "n", "h">>
N_silu ==
    <<"s", "i", "l", "u">>
N_unknown_name ==
    <<"u", "n", "k", "n", "o", "w", "n", "_", "n", "a", "m", "e">>
N_gelu_fast ==
    <<"g", "e", "l", "u", "_", "f", "a", "s", "t">>
N_relu ==
    <<"r", "e", "l", "u">>
N_empty ==
    <<>>

ActNames ==
    RegistryKeys \cup
    {N_GELU, N_Gelu_New, N_ReLU2, N_GELU_PyTorch_Tanh, N_silu,
     N_unknown_name, N_gelu_fast, N_relu, N_empty}

\* quant_config: absent, or a configuration listing some names as scaled.
QuantConfigs ==
    {None,
     QuantConfig({}),
     QuantConfig({K_gelu}),
     QuantConfig({K_gelu, N_gelu_fast, K_gelu_new, K_gelu_pytorch_tanh}),
     QuantConfig({N_GELU, N_unknown_name, K_relu2})}

\* intermediate_size: absent, or an integer.
OptSizes == {None} \cup {IntVal(n) : n \in Sizes}

\* Qualified names found in a configuration.
Q_Sigmoid ==
    <<"t", "o", "r", "c", "h", ".", "n", "n", ".", "m", "o", "d", "u", "l", "e", "s", ".", "a", "c", "t", "i", "v", "a", "t", "i", "o", "n", ".", "S", "i", "g", "m", "o", "i", "d">>
Q_Identity ==
    <<"t", "o", "r", "c", "h", ".", "n", "n", ".", "m", "o", "d", "u", "l", "e", "s", ".", "l", "i", "n", "e", "a", "r", ".", "I", "d", "e", "n", "t", "i", "t", "y">>
Q_prefix_only ==
    <<"t", "o", "r", "c", "h", ".", "n", "n", ".", "m", "o", "d", "u", "l", "e", "s", ".">>
Q_no_dot ==
    <<"t", "o", "r", "c", "h", ".", "n", "n", ".", "m", "o", "d", "u", "l", "e", "s">>
Q_modulesx ==
    <<"t", "o", "r", "c", "h", ".", "n", "n", ".", "m", "o", "d", "u", "l", "e", "s", "x", ".", "E", "v", "i", "l">>
Q_functional ==
    <<"t", "o", "r", "c", "h", ".", "n", "n", ".", "f", "u", "n", "c", "t", "i", "o", "n", "a", "l", ".", "g", "e", "l", "u">>
Q_os_system ==
    <<"o", "s", ".", "s", "y", "s", "t", "e", "m">>
Q_builtins_eval ==
    <<"b", "u", "i", "l", "t", "i", "n", "s", ".", "e", "v", "a", "l">>
Q_Torch_upper ==
    <<"T", "o", "r", "c", "h", ".", "n", "n", ".", "m", "o", "d", "u", "l", "e", "s", ".", "a", "c", "t", "i", "v", "a", "t", "i", "o", "n", ".", "S", "i", "g", "m", "o", "i", "d">>
Q_leading_space ==
    <<" ", "t", "o", "r", "c", "h", ".", "n", "n", ".", "m", "o", "d", "u", "l", "e", "s", ".", "a", "c", "t", "i", "v", "a", "t", "i", "o", "n", ".", "S", "i", "g", "m", "o", "i", "d">>
Q_embedded ==
    <<"o", "s", ".", "t", "o", "r", "c", "h", ".", "n", "n", ".", "m", "o", "d", "u", "l", "e", "s", ".", "s", "y", "s", "t", "e", "m">>

QualNames ==
    {Q_Sigmoid, Q_Identity, Q_prefix_only, Q_no_dot, Q_modulesx,
     Q_functional, Q_os_system, Q_builtins_eval, Q_Torch_upper,
     Q_leading_space, Q_embedded, N_empty}

\* Model configurations: without the field, with the field null, with a
\* name in it, with a value that is no string in it.
Configs ==
    {[model_type |-> StrVal(<<"b", "e", "r", "t">>)]}
    \cup {[sbert_ce_default_activation_function |-> v] :
            v \in {None, IntVal(1)} \cup {StrVal(q) : q \in QualNames}}

(***************************************************************************)
(* Operations of a worker on its ScaledActivation.                         *)
(***************************************************************************)
\* The hardware part of the state where the import is not followed.
HwIdle ==
    /\ hw = [cuda |-> FALSE, hip |-> FALSE, npu |-> FALSE,
             cpu |-> FALSE, amx |-> FALSE]
    /\ pc = "idle"
    /\ imported = {}
    /\ bound = "none"
    /\ gelu = None

\* m = ScaledActivation(act, N, par) on the worker of rank r.
Construct(r, act, N, par) ==
    LET res == ScaledActivationInit(act, N, par, tp_size)
    IN  /\ mods' = IF res.kind = "return"
                   THEN [mods EXCEPT ![r] = res.value]
                   ELSE mods
        /\ last' = [op |-> "ScaledActivation", rank |-> r,
                    intermediate_size |-> N, input_is_parallel |-> par,
                    res |-> res]
        /\ UNCHANGED <<tp_size, me, ckpt, cfg, hw, pc, imported, bound, gelu>>

\* m.weight_loader(m.scales, lw) on the worker of rank r.
Load(r, lw) ==
    /\ IsModule(mods[r])
    /\ LET out == WeightLoader(mods[r], lw, r)
       IN  /\ mods' = [mods EXCEPT ![r].scales = out.scales]
           /\ last' = [op |-> "weight_loader", rank |-> r,
                       loaded_weight |-> lw, res |-> out.res]
    /\ UNCHANGED <<tp_size, me, ckpt, cfg, hw, pc, imported, bound, gelu>>

(***************************************************************************)
(* Spec: one worker of a tensor-parallel group builds ScaledActivations    *)
(* and loads weights into them, with any arguments.                        *)
(***************************************************************************)
Init ==
    /\ tp_size \in 1..MaxTP
    /\ me \in 0..(tp_size - 1)
    /\ mods = [r \in 0..(tp_size - 1) |-> None]
    /\ ckpt = <<>>
    /\ cfg = None
    /\ HwIdle
    /\ last = NoCall

Next ==
    \/ \E N \in Sizes, par \in BOOLEAN : Construct(me, DirectAct, N, par)
    \/ \E lw \in Weights : Load(me, lw)

Spec == Init /\ [][Next]_vars

(***************************************************************************)
(* SpecTP: every worker of the group builds the ScaledActivation of the    *)
(* same model configuration and loads the same checkpoint tensor.          *)
(***************************************************************************)
InitTP ==
    /\ tp_size \in 1..MaxTP
    /\ me = 0
    /\ mods = [r \in 0..(tp_size - 1) |-> None]
    /\ ckpt \in Weights
    /\ cfg \in [intermediate_size : Sizes, input_is_parallel : BOOLEAN]
    /\ HwIdle
    /\ last = NoCall

NextTP ==
    \/ \E r \in Ranks :
          Construct(r, DirectAct, cfg.intermediate_size, cfg.input_is_parallel)
    \/ \E r \in Ranks : Load(r, ckpt)

SpecTP == InitTP /\ [][NextTP]_vars

(***************************************************************************)
(* SpecLookup: a caller in a group of tp_size workers issues one lookup,    *)
(* by name or from a model configuration, and the lookup runs.             *)
(***************************************************************************)
\* A call that has been issued and has not run yet.
Pending == [kind |-> "pending"]

GetActFnCall ==
    /\ last.op = "get_act_fn"
    /\ last.res = Pending
    /\ LET out == GetActFn(last.act_fn_name, last.quant_config,
                           last.intermediate_size, last.input_is_parallel,
                           tp_size)
       IN  last' = [last EXCEPT !.res = out.res, !.built = out.built]
    /\ UNCHANGED <<tp_size, me, mods, ckpt, cfg, hw, pc, imported, bound, gelu>>

CrossEncoderCall ==
    /\ last.op = "get_cross_encoder_activation_function"
    /\ last.res = Pending
    /\ LET out == GetCrossEncoderActivationFunction(last.config, last.resolves)
       IN  last' = [last EXCEPT !.res = out.res, !.resolved = out.resolved]
    /\ UNCHANGED <<tp_size, me, mods, ckpt, cfg, hw, pc, imported, bound, gelu>>

\* The calls a caller may issue, with their arguments.
LookupCalls ==
    {[op |-> "get_act_fn", act_fn_name |-> name, quant_config |-> qc,
      intermediate_size |-> isz, input_is_parallel |-> par,
      res |-> Pending, built |-> FALSE] :
        name \in ActNames, qc \in QuantConfigs, isz \in OptSizes,
        par \in BOOLEAN}
    \cup
    {[op |-> "get_cross_encoder_activation_function", config |-> config,
      resolves |-> resolves, res |-> Pending, resolved |-> <<>>] :
        config \in Configs, resolves \in BOOLEAN}

InitLookup ==
    /\ tp_size \in 1..MaxTP
    /\ me = 0
    /\ mods = [r \in 0..(tp_size - 1) |-> None]
    /\ ckpt = <<>>
    /\ cfg = None
    /\ HwIdle
    /\ last \in LookupCalls

NextLookup ==
    \/ GetActFnCall
    \/ CrossEncoderCall

SpecLookup == InitLookup /\ [][NextLookup]_vars

(***************************************************************************)
(* Claims about the lookups.                                               *)
(***************************************************************************)
LastIsGetActFn == last.op = "get_act_fn" /\ last.res # Pending
\* The last get_act_fn call asked for scaling of a name that quant_config
\* lists.
LastListed ==
    /\ last.quant_config # None
    /\ Lower(last.act_fn_name) \in last.quant_config.scaled_act_names

\* C1: get_act_fn fails with the unsupported-activation error if and only
\* if the lowercased name is not a key of the registry, whatever the other
\* arguments are, and for such a name no ScaledActivation is built.
C1_UnknownName ==
    LastIsGetActFn =>
        /\ (last.res = Raise("ValueError", "unsupported"))
               <=> (Lower(last.act_fn_name) \notin RegistryKeys)
        /\ (Lower(last.act_fn_name) \notin RegistryKeys) => ~last.built

C1_Witness ==
    /\ LastIsGetActFn
    /\ last.act_fn_name = N_gelu_fast
    /\ LastListed
    /\ last.intermediate_size = None
    /\ last.res = Raise("ValueError", "unsupported")

\* C2 as stated: for a name of the registry, a ScaledActivation wrapping the
\* base activation is returned whenever quant_config lists the name and
\* intermediate_size is given, the missing-parameter error is raised when it
\* is listed and intermediate_size is absent, and the base activation is
\* returned in every other case.
C2_Original ==
    (LastIsGetActFn /\ Lower(last.act_fn_name) \in RegistryKeys) =>
        LET base == ACTIVATION_REGISTRY(Lower(last.act_fn_name))
        IN  IF LastListed
            THEN IF last.intermediate_size = None
                 THEN last.res = Raise("ValueError", "intermediate_size_missing")
                 ELSE /\ last.res.kind = "return"
                      /\ IsModule(last.res.value)
                      /\ last.res.value.act = base
            ELSE last.res = Return(base)

\* C2, amended: as stated, except that when quant_config lists the name,
\* intermediate_size is given, the input is parallel and tp_size does not
\* divide intermediate_size, the construction of the ScaledActivation fails
\* with the divisibility error and nothing is returned.
C2_Wrapping ==
    (LastIsGetActFn /\ Lower(last.act_fn_name) \in RegistryKeys) =>
        LET base == ACTIVATION_REGISTRY(Lower(last.act_fn_name))
        IN  IF LastListed
            THEN IF last.intermediate_size = None
                 THEN last.res = Raise("ValueError", "intermediate_size_missing")
                 ELSE IF /\ last.input_is_parallel
                         /\ last.intermediate_size.v % tp_size # 0
                 THEN last.res = Raise("AssertionError", "not_divisible")
                 ELSE /\ last.res.kind = "return"
                      /\ IsModule(last.res.value)
                      /\ last.res.value.act = base
                      /\ last.res.value.input_is_parallel
                             = last.input_is_parallel
            ELSE last.res = Return(base)

C2_Witness ==
    /\ LastIsGetActFn
    /\ last.act_fn_name = N_GELU_PyTorch_Tanh
    /\ LastListed
    /\ last.intermediate_size = IntVal(4)
    /\ last.input_is_parallel
    /\ tp_size = 2
    /\ last.res.kind = "return"
    /\ last.res.value = Module(BaseAct("nn.GELU", "tanh"), TRUE,
                               <<Uninit, Uninit>>)

LastIsCrossEncoder ==
    last.op = "get_cross_encoder_activation_function" /\ last.res # Pending

\* C6: a configuration that declares a non-null activation-function name
\* has that name handed to resolve_obj_by_qualname only if it starts with
\* "torch.nn.modules."; any other name is rejected with the assertion error
\* and nothing is resolved; without the field, or with the field null, the
\* identity is returned and nothing is resolved.
C6_TrustedNamespace ==
    LastIsCrossEncoder =>
        LET config == last.config
        IN  IF HasAttr(config, Field) /\ config[Field] # None
            THEN /\ \A i \in 1..Len(last.resolved) :
                       /\ config[Field].cls = "str"
                       /\ last.resolved[i] = config[Field].s
                       /\ StartsWith(last.resolved[i], TrustedPrefix)
                 /\ (config[Field].cls = "str"
                       /\ ~StartsWith(config[Field].s, TrustedPrefix))
                       => /\ last.resolved = <<>>
                          /\ last.res = Raise("AssertionError", "restricted")
                 /\ (config[Field].cls = "str"
                       /\ StartsWith(config[Field].s, TrustedPrefix))
                       => last.resolved = <<config[Field].s>>
            ELSE /\ last.resolved = <<>>
                 /\ last.res = Return(BaseAct("nn.Identity", "n/a"))

C6_Witness ==
    /\ LastIsCrossEncoder
    /\ last.config = [sbert_ce_default_activation_function |-> StrVal(Q_os_system)]
    /\ last.resolved = <<>>
    /\ last.res = Raise("AssertionError", "restricted")

(***************************************************************************)
(* SpecHW: the module is imported under some hardware flags, lines 42-54,  *)
(* 59-139 and 233-237 in order, and the caller then uses the gated         *)
(* activations through the names SiluAndMul and GeluAndMul.                *)
(***************************************************************************)
Scaled == <<tp_size, me, mods, ckpt, cfg>>

\* Lines 48-54.
ImportKernels ==
    /\ pc = "import_kernels"
    /\ imported' = KernelImports(hw)
    /\ pc' = "define_classes"
    /\ UNCHANGED <<Scaled, hw, bound, gelu, last>>

\* Lines 59-139: the class statements bind the names to the local classes.
DefineClasses ==
    /\ pc = "define_classes"
    /\ bound' = "local"
    /\ pc' = "fallback"
    /\ UNCHANGED <<Scaled, hw, imported, gelu, last>>

\* Lines 233-237.
Fallback ==
    /\ pc = "fallback"
    /\ bound' = IF FallbackToVllm(hw) THEN "vllm" ELSE bound
    /\ pc' = "ready"
    /\ UNCHANGED <<Scaled, hw, imported, gelu, last>>

\* What is known of a call into a class of vllm.
External == [kind |-> "external"]

\* SiluAndMul()(x)
SiluCall(n) ==
    /\ pc = "ready"
    /\ last' = IF bound = "local"
               THEN LET out == SiluForward(n, hw, imported)
                    IN  [op |-> "SiluAndMul.forward", impl |-> "local",
                         n |-> n, method |-> out.method,
                         res |-> out.res, calls |-> out.calls]
               ELSE [op |-> "SiluAndMul.forward", impl |-> "vllm",
                     n |-> n, method |-> "external",
                     res |-> External, calls |-> <<>>]
    /\ UNCHANGED <<Scaled, hw, pc, imported, bound, gelu>>

\* GeluAndMul(approximate)
GeluConstruct(approximate) ==
    /\ pc = "ready"
    /\ bound = "local"
    /\ gelu' = GeluInit(approximate)
    /\ last' = [op |-> "GeluAndMul.__init__", impl |-> "local", n |-> 0,
                method |-> "__init__", res |-> Return(0), calls |-> <<>>]
    /\ UNCHANGED <<Scaled, hw, pc, imported, bound>>

\* gelu.forward_cuda(x)
GeluCudaCall(n) ==
    /\ pc = "ready"
    /\ gelu # None
    /\ LET out == GeluForwardCuda(gelu, n, imported)
       IN  last' = [op |-> "GeluAndMul.forward", impl |-> "local", n |-> n,
                    method |-> "forward_cuda",
                    res |-> out.res, calls |-> out.calls]
    /\ UNCHANGED <<Scaled, hw, pc, imported, bound, gelu>>

\* gelu.forward_native(x)
GeluNativeCall(n) ==
    /\ pc = "ready"
    /\ gelu # None
    /\ LET out == GeluForwardNative(gelu, n)
       IN  last' = [op |-> "GeluAndMul.forward", impl |-> "local", n |-> n,
                    method |-> "forward_native",
                    res |-> out.res, calls |-> out.calls]
    /\ UNCHANGED <<Scaled, hw, pc, imported, bound, gelu>>

InitHW ==
    /\ tp_size = 1
    /\ me = 0
    /\ mods = [r \in 0..0 |-> None]
    /\ ckpt = <<>>
    /\ cfg = None
    /\ hw \in HwFlags
    /\ pc = "import_kernels"
    /\ imported = {}
    /\ bound = "none"
    /\ gelu = None
    /\ last = NoCall

NextHW ==
    \/ ImportKernels
    \/ DefineClasses
    \/ Fallback
    \/ \E n \in LastDims : SiluCall(n)
    \/ \E a \in Modes : GeluConstruct(a)
    \/ \E n \in LastDims : GeluCudaCall(n)
    \/ \E n \in LastDims : GeluNativeCall(n)

SpecHW == InitHW /\ [][NextHW]_vars

(***************************************************************************)
(* Claims about the hardware dispatch.                                     *)
(***************************************************************************)
\* The kernels a call can reach under the flags: the imported names, the
\* registered operators, npu_swiglu when torch_npu is imported, and F.silu
\* of torch.
AvailableKernels ==
    imported \cup RegisteredOps(hw) \cup {"F.silu"}
        \cup (IF "torch_npu" \in imported THEN {"torch_npu.npu_swiglu"} ELSE {})

\* C7: once the module is imported, SiluAndMul and GeluAndMul denote the
\* classes of vllm exactly when none of cuda, hip, npu holds and not (cpu
\* and cpu-amx), and the local classes otherwise; and whichever method the
\* local SiluAndMul dispatches to, the kernel it calls is imported or
\* registered under those flags, and exactly one is called.
C7_FallbackAndKernels ==
    /\ pc = "ready" =>
          /\ bound \in {"local", "vllm"}
          /\ (bound = "vllm") <=>
                (/\ ~hw.cuda /\ ~hw.hip /\ ~hw.npu
                 /\ ~(hw.cpu /\ hw.amx))
    /\ (last.op = "SiluAndMul.forward" /\ last.impl = "local") =>
          /\ last.res = Return(last.n \div 2)
          /\ Len(last.calls) = 1
          /\ last.calls[1] \in AvailableKernels

C7_Witness ==
    /\ pc = "ready"
    /\ hw.hip /\ ~hw.cuda /\ ~hw.npu /\ ~hw.cpu
    /\ bound = "local"
    /\ last.op = "SiluAndMul.forward"
    /\ last.method = "forward_hip"
    /\ last.calls = <<"silu_and_mul">>

\* The fused kernels of GeluAndMul are imported.
GeluKernelsImported == {"gelu_and_mul", "gelu_tanh_and_mul"} \subseteq imported

\* C8: forward_cuda of a GeluAndMul of mode m raises the invalid-mode error
\* if and only if m is neither "tanh" nor "none", calling no kernel; for
\* "tanh" it calls gelu_tanh_and_mul and for "none" gelu_and_mul, once each;
\* forward_native never raises that error and calls F.gelu only; the
\* constructor accepts every m.
C8_GeluMode ==
    /\ (last.op = "GeluAndMul.forward" /\ last.method = "forward_cuda") =>
          /\ (last.res = Raise("RuntimeError", "only_tanh_or_none"))
                <=> (gelu.approximate \notin {"tanh", "none"})
          /\ (gelu.approximate \notin {"tanh", "none"}) => last.calls = <<>>
          /\ (gelu.approximate = "tanh" /\ GeluKernelsImported)
                => last.calls = <<"gelu_tanh_and_mul">>
          /\ (gelu.approximate = "none" /\ GeluKernelsImported)
                => last.calls = <<"gelu_and_mul">>
    /\ (last.op = "GeluAndMul.forward" /\ last.method = "forward_native") =>
          /\ last.res # Raise("RuntimeError", "only_tanh_or_none")
          /\ last.calls = <<"F.gelu">>
    /\ last.op = "GeluAndMul.__init__" =>
          /\ last.res.kind = "return"
          /\ gelu.approximate \in Modes

C8_Witness ==
    /\ last.op = "GeluAndMul.forward"
    /\ last.method = "forward_cuda"
    /\ hw.cuda
    /\ gelu.approximate = "exact"
    /\ last.res = Raise("RuntimeError", "only_tanh_or_none")

(***************************************************************************)
(* Claims about ScaledActivation.                                          *)
(***************************************************************************)
LastIsInit == last.op = "ScaledActivation"
LastIsLoad == last.op = "weight_loader"
\* The module the last call was made on.
LastMod == mods[last.rank]

\* C3: a ScaledActivation built for total intermediate size N holds a scale
\* vector of length N / tp_size when its input is parallel and of length N
\* when it is not; when the input is parallel and tp_size does not divide N
\* the construction fails with the divisibility error and builds nothing.
C3_ScaleLength ==
    LastIsInit =>
        LET N == last.intermediate_size
            par == last.input_is_parallel
        IN  IF par /\ N % tp_size # 0
            THEN last.res = Raise("AssertionError", "not_divisible")
            ELSE /\ last.res.kind = "return"
                 /\ LastMod = last.res.value
                 /\ LastMod.input_is_parallel = par
                 /\ IF par
                    THEN Len(LastMod.scales) * tp_size = N
                    ELSE Len(LastMod.scales) = N

C3_Witness ==
    /\ LastIsInit
    /\ last.input_is_parallel
    /\ tp_size = 2
    /\ last.intermediate_size = 4
    /\ last.res.kind = "return"
    /\ Len(LastMod.scales) = 2

\* C4: a successful weight_loader call leaves in the scale vector of the
\* worker of rank r, of local length s, the elements r*s+1 .. r*s+s of
\* loaded_weight in order when the input is parallel, and the whole of
\* loaded_weight when it is not; the length of the parameter is the same
\* before and after the call.
C4_LoadCopiesShard ==
    [][(last'.op = "weight_loader" /\ last'.res.kind = "return") =>
        LET r == last'.rank
            lw == last'.loaded_weight
            s == Len(mods[r].scales)
        IN  /\ Len(mods'[r].scales) = s
            /\ IF mods'[r].input_is_parallel
               THEN /\ r * s + s <= Len(lw)
                    /\ \A i \in 1..s : mods'[r].scales[i] = lw[r * s + i]
               ELSE mods'[r].scales = lw]_vars

C4_Witness ==
    /\ LastIsLoad
    /\ last.res.kind = "return"
    /\ last.rank = 1
    /\ LastMod.input_is_parallel
    /\ last.loaded_weight = <<0, 0, 0, 1>>
    /\ LastMod.scales = <<0, 1>>

\* The total length weight_loader is meant to be given.
ExpectedTotal ==
    IF LastMod.input_is_parallel
    THEN tp_size * Len(LastMod.scales)
    ELSE Len(LastMod.scales)

\* C5 as stated: every loaded_weight whose length is not the expected
\* total ends in the shape-mismatch error.
C5_Original ==
    (LastIsLoad /\ Len(last.loaded_weight) # ExpectedTotal) =>
        last.res = Raise("AssertionError", "shape")

\* C5, amended: the shape-mismatch error is raised exactly when the input is
\* not parallel and the length of loaded_weight differs from the local scale
\* length. When the input is parallel, the worker of rank r with local
\* length s fails in narrow, with an out-of-range error, when loaded_weight
\* has fewer than (r+1)*s elements, and succeeds otherwise, whatever the
\* total length of loaded_weight.
C5_ShapeMismatch ==
    LastIsLoad =>
        LET s == Len(LastMod.scales)
            n == Len(last.loaded_weight)
            r == last.rank
        IN  IF LastMod.input_is_parallel
            THEN IF n < (r + 1) * s
                 THEN /\ last.res.kind = "raise"
                      /\ last.res.exc \in {"IndexError", "RuntimeError"}
                 ELSE last.res.kind = "return"
            ELSE IF n # s
                 THEN last.res = Raise("AssertionError", "shape")
                 ELSE last.res.kind = "return"

C5_Witness ==
    /\ LastIsLoad
    /\ ~LastMod.input_is_parallel
    /\ Len(LastMod.scales) = 3
    /\ Len(last.loaded_weight) = 4
    /\ last.res = Raise("AssertionError", "shape")

\* C10: a weight_loader call that fails, in narrow or in the shape
\* assertion, leaves every scale vector as it was before the call.
C10_FailedLoadKeepsScales ==
    [][(last'.op = "weight_loader" /\ last'.res.kind = "raise") =>
        mods' = mods]_vars

C10_Witness ==
    /\ LastIsLoad
    /\ last.res = Raise("AssertionError", "shape")
    /\ ~LastMod.input_is_parallel
    /\ LastMod.scales = <<1, 0, 1>>
    /\ Len(last.loaded_weight) = 2

RECURSIVE ConcatScales(_)
\* The scale vectors of the workers of ranks 0 .. k-1, in rank order.
ConcatScales(k) ==
    IF k = 0 THEN <<>> ELSE ConcatScales(k - 1) \o mods[k - 1].scales

\* Every worker holds a module whose scale vector has been written.
AllLoaded ==
    \A r \in Ranks :
        /\ IsModule(mods[r])
        /\ \A i \in 1..Len(mods[r].scales) : mods[r].scales[i] # Uninit

\* C9: when the tp_size workers have each built the parallel
\* ScaledActivation of the same intermediate size N and each loaded the same
\* loaded_weight of length N, every index of loaded_weight lies in the slice
\* of exactly one rank, and the scale vectors concatenated in rank order
\* are loaded_weight.
C9_ShardsTile ==
    (/\ cfg # None
     /\ cfg.input_is_parallel
     /\ Len(ckpt) = cfg.intermediate_size
     /\ AllLoaded) =>
        /\ ConcatScales(tp_size) = ckpt
        /\ \A i \in 1..Len(ckpt) :
              Cardinality({r \in Ranks :
                  /\ r * Len(mods[r].scales) < i
                  /\ i <= (r + 1) * Len(mods[r].scales)}) = 1

C9_Witness ==
    /\ cfg # None
    /\ cfg.input_is_parallel
    /\ cfg.intermediate_size = 4
    /\ tp_size = 2
    /\ ckpt = <<0, 1, 1, 0>>
    /\ AllLoaded
    /\ mods[1].scales = <<1, 0>>

====
